---- MODULE Spec2Model ----
(***************************************************************************)
(* reproserver web views (src/reproserver/web/views.py): the upload, run   *)
(* creation and result handlers, run as concurrent request handlers over a *)
(* transactional database and an object store.                             *)
(*                                                                         *)
(* Every request handler is a coroutine: it runs without interruption from *)
(* one `await` of an external service to the next, so each action below is *)
(* the code between two such suspension points.  A handler owns a database *)
(* session: what it adds or changes stays private to it until db.commit()  *)
(* and is discarded when the handler ends without committing.              *)
(***************************************************************************)
EXTENDS Integers, Sequences, FiniteSets, TLC

\* Bound of the model: how many requests are served in one behaviour.
MaxRequests == 3

\* Bound of the model: how many Run rows the database comes to hold.
MaxRuns == 1

\* The most lines the runner writes to the log of a Run.
MaxLog == 2

\* The connections that can be open at the same time, in the order the
\* server hands them to incoming requests.
Handlers == 1..2

\* The content hashes of the packages users upload.
Hashes == {"h1", "h2", "bad"}

None == "none"

--------------------------------------------------------------------------
(* Sequences *)

RECURSIVE SeqToSet(_)
SeqToSet(s) == IF s = <<>> THEN {} ELSE {Head(s)} \cup SeqToSet(Tail(s))

Last(s) == s[Len(s)]

\* The sequences over S of length at most n.
SeqsUpTo(S, n) == UNION {[1..k -> S] : k \in 0..n}

\* The sequences over S with no element twice: the keys of a dict, in
\* insertion order.
DistinctSeqs(S) ==
    {s \in SeqsUpTo(S, Cardinality(S)) :
        \A i, j \in 1..Len(s) : i # j => s[i] # s[j]}

Max(S) == CHOOSE x \in S : \A y \in S : y <= x

\* The next value of an autoincrement primary key.
NextId(rows) == IF rows = {} THEN 1 ELSE Max({r.id : r \in rows}) + 1

--------------------------------------------------------------------------
(* Package metadata: what rpz_metadata.make_experiment extracts from a     *)
(* package, as a function of the package's bytes (its hash).               *)

ValidPackage(hash) == hash # "bad"

Parameters(hash) ==
    IF hash = "h1"
    THEN {[name |-> "a", optional |-> FALSE], [name |-> "b", optional |-> FALSE]}
    ELSE IF hash = "h2"
    THEN {[name |-> "a", optional |-> FALSE], [name |-> "b", optional |-> TRUE]}
    ELSE {}

\* The Path rows of the experiment: name and is_input.
Paths(hash) ==
    IF hash = "h1"
    THEN {[name |-> "in1", is_input |-> TRUE], [name |-> "out1", is_input |-> FALSE]}
    ELSE IF hash = "h2"
    THEN {[name |-> "out1", is_input |-> FALSE]}
    ELSE {}

--------------------------------------------------------------------------
(* Short-ID codec (database.Upload.decode_id, .short_id, and the same for  *)
(* Run): an id written in the digits of Alphabet, most significant first.  *)

Alphabet == <<"b", "c", "d">>

AlphabetChars == SeqToSet(Alphabet)

DigitOf(c) == (CHOOSE i \in 1..Len(Alphabet) : Alphabet[i] = c) - 1

RECURSIVE EncodeId(_)
EncodeId(id) ==
    IF id < Len(Alphabet)
    THEN <<Alphabet[id + 1]>>
    ELSE Append(EncodeId(id \div Len(Alphabet)), Alphabet[(id % Len(Alphabet)) + 1])

RECURSIVE DecodeDigits(_)
DecodeDigits(s) ==
    IF s = <<>> THEN 0
    ELSE DecodeDigits(SubSeq(s, 1, Len(s) - 1)) * Len(Alphabet) + DigitOf(Last(s))

\* decode_id: [ok |-> FALSE] stands for the ValueError it raises.
DecodeId(s) ==
    IF s = <<>> \/ \E i \in 1..Len(s) : s[i] \notin AlphabetChars
    THEN [ok |-> FALSE, id |-> 0]
    ELSE [ok |-> TRUE, id |-> DecodeDigits(s)]

\* The Short-IDs requests come with: those of the ids the store can have
\* given out, one of an id it has not, and a malformed string.
ShortIds == {EncodeId(i) : i \in 1..MaxRequests} \cup {<<"c", "!">>}

--------------------------------------------------------------------------
(* State *)

VARIABLES
    experiments,  \* committed Experiment rows
    uploads,      \* committed Upload rows
    runs,         \* committed Run rows, each with its child rows
    blobs,        \* the object store: <<bucket, key>> of every stored object
    handlers,     \* the request each connection is serving, and where it is
    sent,         \* the request just answered, with its response
    triggered,    \* the run ids handed to application.runner.run, in order
    issued,       \* history: what each returned store_uploaded_rpz call got
    created,      \* history: what each committed StartRun.post was asked for
    clock,        \* datetime.utcnow()
    nreq,         \* requests served so far
    is_exiting,   \* application.is_exiting: the application is shutting down
    polled        \* history: the log the last poll with log_from=0 returned

vars == <<experiments, uploads, runs, blobs, handlers, sent, triggered,
          issued, created, clock, nreq, is_exiting, polled>>

\* What only the health check, the shutdown and the polls of the log touch.
serving == <<is_exiting, polled>>

db == <<experiments, uploads, runs>>

NoKey == [prefix |-> None, name |-> None]

NoRun == [id |-> 0, experiment_hash |-> None, upload_id |-> 0,
          parameter_values |-> <<>>, input_files |-> <<>>, ports |-> <<>>,
          started |-> FALSE, done |-> FALSE,
          progress_percent |-> 0, progress_text |-> "", log |-> <<>>]

\* What the client gets: the HTTP status, the page or redirect target or
\* error, and the detail it names.
Response(status, what) ==
    [status |-> status, what |-> what, short_id |-> <<>>, names |-> {},
     key |-> NoKey, token |-> <<>>, body |-> <<>>, run |-> NoRun]

NoResponse == Response(0, None)

Idle == [kind |-> "idle", pc |-> "idle", hash |-> None, found |-> FALSE,
         short_id |-> <<>>, upload_id |-> 0, args |-> <<>>, asked |-> {},
         files |-> <<>>, fidx |-> 0, ports |-> <<>>, run |-> NoRun,
         now |-> 0, repository_key |-> None, log_from |-> 0, earlier |-> <<>>,
         exiting |-> FALSE, checks |-> <<>>, resp |-> NoResponse]

\* The handler sends its response and ends: its session is closed with it
\* and the connection is free for the next request.
Replies(c, h, resp) ==
    /\ handlers' = [handlers EXCEPT ![c] = Idle]
    /\ sent' = [h EXCEPT !.pc = "done", !.resp = resp]

\* The handler awaits an external service.
Awaits(c, h, pc) ==
    /\ handlers' = [handlers EXCEPT ![c] = [h EXCEPT !.pc = pc]]
    /\ sent' = Idle

Init ==
    /\ experiments = {}
    /\ uploads = {}
    /\ runs = {}
    /\ blobs = {}
    /\ handlers = [c \in Handlers |-> Idle]
    /\ sent = Idle
    /\ triggered = <<>>
    /\ issued = <<>>
    /\ created = <<>>
    /\ clock = 0
    /\ nreq = 0
    /\ is_exiting = FALSE
    /\ polled = <<>>

\* A handler that is awaiting an external service resumes.  (A response
\* is on record in `sent` for one step only, see Delivered.)
Resumes(c, kind, pc) ==
    /\ sent = Idle
    /\ handlers[c].kind = kind
    /\ handlers[c].pc = pc

\* The first free connection takes the next request.
Free(c) ==
    /\ sent = Idle
    /\ handlers[c].kind = "idle"
    /\ \A d \in Handlers : d < c => handlers[d].kind # "idle"

Accepts(c) == Free(c) /\ nreq < MaxRequests

\* StartRun.post is served while the Runs committed and those under way
\* stay within the bound.
AcceptsRun(c) ==
    /\ Accepts(c)
    /\ Cardinality(runs)
           + Cardinality({d \in Handlers : handlers[d].kind = "start_run"})
           < MaxRuns

--------------------------------------------------------------------------
(* The handlers that take a Short-ID *)

\* The Short-IDs a request for one of these rows comes with: that of a
\* row, that of the next row (the ids not given out yet are all alike, none
\* has a row), or the malformed one.
AskedFor(short_id, rows) ==
    DecodeId(short_id).ok => DecodeId(short_id).id <= NextId(rows)

\* What a handler answers when decode_id raises ValueError.
MalformedOutcome(kind) ==
    CASE kind = "reproduce_local" -> Response(404, "setup_notfound.html")
      [] kind = "start_run" -> Response(404, "setup_notfound.html")
      [] kind = "results" -> Response(404, "results_notfound.html")
      [] kind = "results_json" -> Response(404, "Not found")

\* What a handler answers when the query finds no row with the id.
NotFoundOutcome(kind) ==
    CASE kind = "reproduce_local" -> Response(404, "setup_notfound.html")
      [] kind = "start_run" -> Response(404, "setup_notfound.html")
      [] kind = "results" -> Response(404, "results_notfound.html")
      [] kind = "results_json" -> Response(404, "Not found")

--------------------------------------------------------------------------
(* Upload.post and store_uploaded_rpz *)

\* db.query(database.Experiment).get(filehash)
ExperimentByHash(hash) == {e \in experiments : e.hash = hash}

\* A variant that takes every hash for a new one.
FoundNever(exps, hash) == FALSE

\* if experiment: the lookup found a row
Found(exps, hash) == \E e \in exps : e.hash = hash

\* A variant that reuses the Upload row of an Experiment that has one.
NewUploadDedup(ups, hash, now) ==
    IF \E u \in ups : u.experiment_hash = hash
    THEN CHOOSE u \in ups : u.experiment_hash = hash
    ELSE [id |-> NextId(ups), experiment_hash |-> hash, last_access |-> now,
          repository_key |-> None]

\* database.Upload(experiment=experiment, ...); db.add(upload)
NewUpload(ups, hash, now) ==
    [id |-> NextId(ups), experiment_hash |-> hash, last_access |-> now,
     repository_key |-> None]

\* A variant that stores the blob without extracting the metadata first.
AfterLookupMissStore == "upload_file"

\* What store_uploaded_rpz awaits first for a hash it has not found: the
\* metadata extraction, before anything is added or stored.
AfterLookupMiss == "make_experiment"

\* The redirect to the build page that ends a successful Upload.post.
UploadRedirect(upload) ==
    [Response(303, "reproduce_local") EXCEPT !.short_id = EncodeId(upload.id)]

\* Upload.post with a file whose hash is `hash`, up to the first await of
\* store_uploaded_rpz: when the experiment is known there is none and the
\* call runs to its commit.
UploadPost(c, hash) ==
    LET h == [Idle EXCEPT !.kind = "upload", !.hash = hash]
        now == clock + 1
        upload == NewUpload(uploads, hash, now)
    IN  /\ Accepts(c)
        /\ nreq' = nreq + 1
        /\ UNCHANGED <<runs, blobs, triggered, created, serving>>
        /\ IF Found(experiments, hash)
           THEN /\ clock' = now
                /\ experiments' =
                       {IF e.hash = hash THEN [e EXCEPT !.last_access = now] ELSE e
                        : e \in experiments}
                /\ uploads' = uploads \cup {upload}
                /\ issued' = Append(issued, [hash |-> hash, id |-> upload.id,
                                             short_id |-> EncodeId(upload.id)])
                /\ Replies(c, [h EXCEPT !.found = TRUE, !.now = now],
                           UploadRedirect(upload))
           ELSE /\ Awaits(c, h, AfterLookupMiss)
                /\ UNCHANGED <<experiments, uploads, issued, clock>>

\* rpz_metadata.make_experiment returns or raises InvalidPackage, which
\* Upload.post turns into the bad-file page.
MakeExperimentDone(c) ==
    LET h == handlers[c]
    IN  /\ Resumes(c, "upload", "make_experiment")
        /\ UNCHANGED <<experiments, uploads, runs, blobs, triggered, issued,
                       created, clock, nreq, serving>>
        /\ IF ValidPackage(h.hash)
           THEN Awaits(c, h, "upload_file")
           ELSE Replies(c, h, Response(200, "setup_badfile.html"))

\* A variant in which the failure of the upload is caught and passed over.
UploadRaisesNever(stored) == FALSE

\* await object_store.upload_..._async(...): the handlers have no except
\* clause around it, the exception of a failed upload ends the request.
UploadRaises(stored) == ~stored

\* object_store.upload_file_async('experiments', filehash, filename)
\* returns, or raises for an object store that cannot be reached.
UploadFileDone(c, stored) ==
    LET h == handlers[c]
    IN  /\ Resumes(c, "upload", "upload_file")
        /\ UNCHANGED <<experiments, uploads, runs, triggered, issued, created,
                       clock, nreq, serving>>
        /\ blobs' = IF stored THEN blobs \cup {<<"experiments", h.hash>>}
                              ELSE blobs
        /\ IF UploadRaises(stored)
           THEN Replies(c, h, Response(500, "object store error"))
           ELSE Awaits(c, h, "process_uploaded_rpz")

\* process_uploaded_rpz returns; the Upload is added and the session
\* committed.  The commit inserts the Experiment this session added: the
\* database refuses a second row with the same primary key (the hash), the
\* commit raises IntegrityError, and nothing of the session is kept.
ProcessUploadedDone(c) ==
    LET h == handlers[c]
        now == clock + 1
        upload == NewUpload(uploads, h.hash, now)
    IN  /\ Resumes(c, "upload", "process_uploaded_rpz")
        /\ UNCHANGED <<runs, blobs, triggered, created, nreq, serving>>
        /\ IF ExperimentByHash(h.hash) # {}
           THEN /\ Replies(c, h, Response(500, "IntegrityError"))
                /\ UNCHANGED <<experiments, uploads, issued, clock>>
           ELSE /\ clock' = now
                /\ experiments' = experiments \cup
                       {[hash |-> h.hash, last_access |-> now]}
                /\ uploads' = uploads \cup {upload}
                /\ issued' = Append(issued, [hash |-> h.hash, id |-> upload.id,
                                             short_id |-> EncodeId(upload.id)])
                /\ Replies(c, [h EXCEPT !.now = now], UploadRedirect(upload))

--------------------------------------------------------------------------
(* ReproduceLocal.get and ReproduceRepo.get *)

\* BaseReproduce.reproduce: the setup page of the Upload.
SetupPage(upload) ==
    [Response(200, "setup.html") EXCEPT !.short_id = EncodeId(upload.id)]

\* upload.last_access = utcnow(); upload.experiment.last_access = utcnow()
Touched(rows, upload, now) ==
    [experiments |->
         {IF e.hash = upload.experiment_hash
          THEN [e EXCEPT !.last_access = now] ELSE e : e \in rows.experiments},
     uploads |->
         {IF u.id = upload.id
          THEN [u EXCEPT !.last_access = now] ELSE u : u \in rows.uploads}]

\* ReproduceLocal.get
ReproduceLocalGet(c, short_id) ==
    LET decoded == DecodeId(short_id)
        found == {u \in uploads : u.id = decoded.id}
        h0 == [Idle EXCEPT !.kind = "reproduce_local", !.short_id = short_id]
    IN  /\ Accepts(c)
        /\ AskedFor(short_id, uploads)
        /\ nreq' = nreq + 1
        /\ UNCHANGED <<runs, blobs, triggered, issued, created, serving>>
        /\ IF ~decoded.ok \/ found = {}
           THEN /\ Replies(c, h0, IF ~decoded.ok
                                  THEN MalformedOutcome("reproduce_local")
                                  ELSE NotFoundOutcome("reproduce_local"))
                /\ UNCHANGED <<experiments, uploads, clock>>
           ELSE LET upload == CHOOSE u \in found : TRUE
                    now == clock + 1
                    rows == Touched([experiments |-> experiments,
                                     uploads |-> uploads], upload, now)
                IN  /\ clock' = now
                    /\ experiments' = rows.experiments
                    /\ uploads' = rows.uploads
                    /\ Replies(c, [h0 EXCEPT !.upload_id = upload.id,
                                             !.now = now],
                               SetupPage(upload))

\* The repository keys ('repo/repo_path') users ask for.
RepositoryKeys == {"repo/path"}

\* What get_experiment_from_repository comes to: the hash of the package
\* it fetched, or RepositoryError.
Fetched == {"h1", "bad", "RepositoryError"}

\* A variant that takes the first Upload registered with the key.
Oldest(matching) == CHOOSE u \in matching : \A v \in matching : u.id <= v.id

\* .order_by(database.Upload.id.desc()).first()
MostRecent(matching) == CHOOSE u \in matching : \A v \in matching : u.id >= v.id

\* ReproduceRepo.get: with an Upload of the key, to its end (the page URL
\* it awaits after the commit changes nothing); without, to the await of
\* get_experiment_from_repository.
ReproduceRepoGet(c, key) ==
    LET matching == {u \in uploads : u.repository_key = key}
        h0 == [Idle EXCEPT !.kind = "reproduce_repo", !.repository_key = key]
    IN  /\ Accepts(c)
        /\ nreq' = nreq + 1
        /\ UNCHANGED <<runs, blobs, triggered, issued, created, serving>>
        /\ IF matching = {}
           THEN /\ Awaits(c, h0, "get_experiment_from_repository")
                /\ UNCHANGED <<experiments, uploads, clock>>
           ELSE LET upload == MostRecent(matching)
                    now == clock + 1
                    rows == Touched([experiments |-> experiments,
                                     uploads |-> uploads], upload, now)
                IN  /\ clock' = now
                    /\ experiments' = rows.experiments
                    /\ uploads' = rows.uploads
                    /\ Replies(c, [h0 EXCEPT !.found = TRUE,
                                             !.upload_id = upload.id,
                                             !.now = now],
                               SetupPage(upload))

\* get_experiment_from_repository returns the Upload it registered with
\* the key, for the package it fetched and stored, or raises; the last
\* access is set and the session committed.
GetExperimentDone(c, fetched) ==
    LET h == handlers[c]
        now == clock + 1
        upload == [NewUpload(uploads, fetched, now) EXCEPT
                       !.repository_key = h.repository_key]
    IN  /\ Resumes(c, "reproduce_repo", "get_experiment_from_repository")
        /\ UNCHANGED <<runs, triggered, issued, created, nreq, serving>>
        /\ IF fetched = "RepositoryError"
           THEN /\ Replies(c, h, Response(404, "setup_notfound.html"))
                /\ UNCHANGED <<experiments, uploads, blobs, clock>>
           ELSE IF ~ValidPackage(fetched)
           THEN /\ Replies(c, h, Response(404, "setup_badfile.html"))
                /\ UNCHANGED <<experiments, uploads, blobs, clock>>
           ELSE /\ clock' = now
                /\ experiments' =
                       {e \in experiments : e.hash # fetched}
                           \cup {[hash |-> fetched, last_access |-> now]}
                /\ uploads' = uploads \cup {upload}
                /\ blobs' = blobs \cup {<<"experiments", fetched>>}
                /\ Replies(c, [h EXCEPT !.hash = fetched,
                                        !.upload_id = upload.id, !.now = now],
                           SetupPage(upload))

--------------------------------------------------------------------------
(* The fields of a StartRun.post request *)

\* The keys of request.body_arguments: run parameters and another field.
ArgKeys ==
    {[prefix |-> "param_", name |-> n] : n \in {"a", "b", "x"}}
        \cup {[prefix |-> "", name |-> "ports"]}

\* request.body_arguments[k]: the values submitted under a key, never empty.
ValuesOf(k) == IF k.name = "b" THEN <<"1", "2">> ELSE <<"1">>

\* The form fields in the order submitted: the parameters in any order,
\* then the ports field.
ArgLists ==
    {params \o <<[prefix |-> "", name |-> "ports"]>> :
         params \in DistinctSeqs({k \in ArgKeys : k.prefix = "param_"})}

\* The keys of request.files.
FileKeys ==
    {[prefix |-> "inputfile_", name |-> "in1"],
     [prefix |-> "attachment_", name |-> "in1"]}

\* The body of an uploaded file, its sha256 digest and its length.
Body == <<"x", "y">>

Sha256(body) == <<"sha256">> \o body

FileLists == DistinctSeqs(FileKeys)

\* The tokens of the ports field.
P80 == <<"8", "0">>

P65535 == <<"6", "5", "5", "3", "5">>

P65536 == <<"6", "5", "5", "3", "6">>

P0 == <<"0">>

PMinus1 == <<"-", "1">>

P8x == <<"8", "x">>

\* The token lists of the ports field: none, valid ones only, an invalid
\* one of each kind alone, after a valid one, before one, and two of them.
PortTokenLists ==
    {<<>>, <<P80>>, <<P80, P65535>>,
     <<P0>>, <<P65536>>, <<PMinus1>>, <<P8x>>,
     <<P80, P65536>>, <<P0, P80>>, <<P8x, P0>>, <<P0, P8x>>}

\* The ports field: the tokens separated by a space.
RECURSIVE JoinTokens(_)
JoinTokens(tokens) ==
    IF tokens = <<>> THEN <<>>
    ELSE IF Len(tokens) = 1 THEN tokens[1]
    ELSE tokens[1] \o <<" ">> \o JoinTokens(Tail(tokens))

--------------------------------------------------------------------------
(* StartRun.post *)

\* str.split(): the maximal runs of characters that are not whitespace.
RECURSIVE SplitFrom(_, _, _)
SplitFrom(chars, word, words) ==
    IF chars = <<>>
    THEN IF word = <<>> THEN words ELSE Append(words, word)
    ELSE IF Head(chars) = " "
    THEN SplitFrom(Tail(chars), <<>>,
                   IF word = <<>> THEN words ELSE Append(words, word))
    ELSE SplitFrom(Tail(chars), Append(word, Head(chars)), words)

Split(chars) == SplitFrom(chars, <<>>, <<>>)

DecimalDigits == <<"0", "1", "2", "3", "4", "5", "6", "7", "8", "9">>

IsDigit(ch) == \E i \in 1..Len(DecimalDigits) : DecimalDigits[i] = ch

DigitValue(ch) == (CHOOSE i \in 1..Len(DecimalDigits) : DecimalDigits[i] = ch) - 1

RECURSIVE DecimalValue(_)
DecimalValue(digits) ==
    IF digits = <<>> THEN 0
    ELSE DecimalValue(SubSeq(digits, 1, Len(digits) - 1)) * Len(DecimalDigits)
             + DigitValue(Last(digits))

\* int(port_str): an optional sign and decimal digits; [ok |-> FALSE] stands
\* for the ValueError it raises.
ParseInt(token) ==
    LET signed == token # <<>> /\ Head(token) \in {"+", "-"}
        digits == IF signed THEN Tail(token) ELSE token
    IN  IF digits = <<>> \/ \E i \in 1..Len(digits) : ~IsDigit(digits[i])
        THEN [ok |-> FALSE, value |-> 0]
        ELSE [ok |-> TRUE,
              value |-> IF signed /\ Head(token) = "-"
                        THEN 0 - DecimalValue(digits)
                        ELSE DecimalValue(digits)]

\* A variant that lets port 0 through.
ValidPortFromZero(port) == 0 <= port /\ port <= 65535

\* 1 <= port <= 65535
ValidPort(port) == 1 <= port /\ port <= 65535

\* The loop over the port tokens: the RunPort rows it appends, or the first
\* token it raises for.
RECURSIVE PortLoop(_, _)
PortLoop(tokens, ports) ==
    IF tokens = <<>> THEN [ok |-> TRUE, token |-> <<>>, ports |-> ports]
    ELSE LET parsed == ParseInt(Head(tokens))
         IN  IF parsed.ok /\ ValidPort(parsed.value)
             THEN PortLoop(Tail(tokens), Append(ports, parsed.value))
             ELSE [ok |-> FALSE, token |-> Head(tokens), ports |-> ports]

\* params: the names of experiment.parameters.
ParameterNames(hash) == {p.name : p \in Parameters(hash)}

\* A variant that takes the optional parameters for mandatory ones.
ParametersUnsetAll(hash) == {p.name : p \in Parameters(hash)}

\* params_unset as first built: the names of the parameters not optional.
ParametersUnset(hash) == {p.name : p \in {q \in Parameters(hash) : ~q.optional}}

\* A variant that takes every submitted name.
UnknownParameterNever(name, params) == FALSE

\* name not in params
UnknownParameter(name, params) == name \notin params

\* The loop over request.body_arguments: the ParameterValue rows it appends
\* and the names it leaves unset, or the first key it raises for.
RECURSIVE ParamLoop(_, _, _)
ParamLoop(args, params, st) ==
    IF args = <<>> THEN st
    ELSE LET k == Head(args)
             v == ValuesOf(k)
         IN  IF k.prefix # "param_" \/ v = <<>>
             THEN ParamLoop(Tail(args), params, st)
             ELSE IF UnknownParameter(k.name, params)
             THEN [st EXCEPT !.unknown = k]
             ELSE ParamLoop(Tail(args), params,
                      [st EXCEPT !.values = Append(@, [name |-> k.name,
                                                        value |-> Last(v)]),
                                 !.unset = @ \ {k.name}])

\* input_files: the names of the experiment's Paths that are inputs.
InputFileNames(hash) == {p.name : p \in {q \in Paths(hash) : q.is_input}}

\* A variant that looks at the prefix of the key only.
UnknownInputFileByPrefix(k, input_files) == k.prefix # "inputfile_"

\* not k.startswith('inputfile_') or k[10:] not in input_files
UnknownInputFile(k, input_files) ==
    k.prefix # "inputfile_" \/ k.name \notin input_files

\* A variant in which the Run is written through as it is staged.
FlushedCommitted(rs, run) == rs \cup {[run EXCEPT !.id = NextId(rs)]}

\* What other sessions see of a Run that is added to the session and not
\* committed: nothing.
Flushed(rs, run) == rs

\* A variant that hands over the id of the Upload.
TriggeredUpload(run) == run.upload_id

\* The id StartRun.post hands to the runner.
Triggered(run) == run.id

\* A variant that redirects to the Short-ID of the Upload.
ResultsUrlOfUpload(run) == EncodeId(run.upload_id)

\* self.reverse_url('results', run.short_id)
ResultsUrl(run) == EncodeId(run.id)

\* A variant that runs the runner's first step before it returns.
BackgroundFutureAwaited(run) == [run EXCEPT !.started = TRUE]

\* background_future(runner.run(run.id)): the runner's coroutine is
\* scheduled and the handler goes on; the Run row is as it was committed.
BackgroundFuture(run) == run

\* A variant that takes the id after the one it decoded for the Run.
NewRunOfNextId(upload, upload_id) ==
    [NoRun EXCEPT !.experiment_hash = upload.experiment_hash,
                  !.upload_id = upload_id + 1]

\* database.Run(experiment_hash=experiment.hash, upload_id=upload_id, ...)
\* with experiment = upload.experiment
NewRun(upload, upload_id) ==
    [NoRun EXCEPT !.experiment_hash = upload.experiment_hash,
                  !.upload_id = upload_id]

\* StartRun.post raises, or its await does: nothing is committed.
StartRunFails(c, h, resp) ==
    /\ Replies(c, h, resp)
    /\ runs' = Flushed(runs, h.run)
    /\ UNCHANGED <<experiments, uploads, triggered, created>>

\* StartRun.post from the i-th uploaded file on: to the next await, to the
\* ValueError it raises, or through the ports to the commit, the trigger and
\* the redirect.
StartRunFrom(c, h, i) ==
    IF i <= Len(h.files)
    THEN IF UnknownInputFile(h.files[i], InputFileNames(h.run.experiment_hash))
         THEN StartRunFails(c, h,
                  [Response(500, "Unknown input file") EXCEPT !.key = h.files[i]])
         ELSE /\ Awaits(c, [h EXCEPT !.fidx = i, !.args = <<>>], "upload_bytes")
              /\ runs' = Flushed(runs, h.run)
              /\ UNCHANGED <<experiments, uploads, triggered, created>>
    ELSE \E tokens \in PortTokenLists :
         LET field == JoinTokens(tokens)
             hp == [h EXCEPT !.ports = field]
             loop == PortLoop(Split(field), <<>>)
             run == [h.run EXCEPT !.id = NextId(runs), !.ports = loop.ports]
         IN  IF ~loop.ok
             THEN StartRunFails(c, hp,
                      [Response(500, "Invalid port number") EXCEPT
                           !.token = loop.token])
             ELSE /\ runs' = runs \cup {BackgroundFuture(run)}
                  /\ uploads' =
                         {IF u.id = h.upload_id
                          THEN [u EXCEPT !.last_access = h.now] ELSE u
                          : u \in uploads}
                  /\ experiments' =
                         {IF e.hash = run.experiment_hash
                          THEN [e EXCEPT !.last_access = h.now] ELSE e
                          : e \in experiments}
                  /\ triggered' = Append(triggered, Triggered(run))
                  /\ created' = Append(created,
                         [id |-> run.id, short_id |-> ResultsUrl(run),
                          upload_id |-> h.upload_id,
                          parameters |-> h.asked,
                          files |-> h.files, ports |-> tokens])
                  /\ Replies(c, [hp EXCEPT !.run = run],
                             [Response(303, "results") EXCEPT
                                  !.short_id = ResultsUrl(run)])

\* StartRun.post up to its first await.
StartRunPost(c, short_id) ==
    LET decoded == DecodeId(short_id)
        found == {u \in uploads : u.id = decoded.id}
        h0 == [Idle EXCEPT !.kind = "start_run", !.short_id = short_id]
    IN  /\ AcceptsRun(c)
        /\ AskedFor(short_id, uploads)
        /\ nreq' = nreq + 1
        /\ UNCHANGED <<blobs, issued, serving>>
        /\ IF ~decoded.ok \/ found = {}
           THEN /\ Replies(c, h0, IF ~decoded.ok
                                  THEN MalformedOutcome("start_run")
                                  ELSE NotFoundOutcome("start_run"))
                /\ UNCHANGED <<experiments, uploads, runs, triggered, created,
                               clock>>
           ELSE LET upload == CHOOSE u \in found : TRUE
                    hash == upload.experiment_hash
                    now == clock + 1
                    h1 == [h0 EXCEPT !.upload_id = decoded.id, !.now = now,
                               !.run = NewRun(upload, decoded.id)]
                IN  /\ clock' = now
                    /\ \E args \in ArgLists :
                       LET loop == ParamLoop(args, ParameterNames(hash),
                                       [unknown |-> NoKey, values |-> <<>>,
                                        unset |-> ParametersUnset(hash)])
                           h2 == [h1 EXCEPT !.args = args,
                                      !.asked = {k.name : k \in
                                          {a \in SeqToSet(args) :
                                              a.prefix = "param_"}},
                                      !.run.parameter_values = loop.values]
                       IN  IF loop.unknown # NoKey
                           THEN StartRunFails(c, h2,
                                    [Response(500, "Unknown parameter") EXCEPT
                                         !.key = loop.unknown])
                           ELSE IF loop.unset # {}
                           THEN StartRunFails(c, h2,
                                    [Response(500, "Missing value for parameters")
                                         EXCEPT !.names = loop.unset])
                           ELSE \E files \in FileLists :
                                    StartRunFrom(c, [h2 EXCEPT !.files = files], 1)

\* object_store.upload_bytes_async('inputs', inputfilehash, body) returns,
\* or raises; the InputFile is appended and the loop goes on.
UploadBytesDone(c, stored) ==
    LET h == handlers[c]
        name == h.files[h.fidx].name
        input_file == [hash |-> Sha256(Body), name |-> name, size |-> Len(Body)]
    IN  /\ Resumes(c, "start_run", "upload_bytes")
        /\ UNCHANGED <<issued, clock, nreq, serving>>
        /\ blobs' = IF stored THEN blobs \cup {<<"inputs", Sha256(Body)>>}
                              ELSE blobs
        /\ IF UploadRaises(stored)
           THEN StartRunFails(c, h, Response(500, "object store error"))
           ELSE StartRunFrom(c,
                    [h EXCEPT !.run.input_files = Append(@, input_file)],
                    h.fidx + 1)

--------------------------------------------------------------------------
(* Results.get and ResultsJson.get *)

RunById(id) == {r \in runs : r.id = id}

\* run.get_log(from_line): the lines of the log from the offset on.
GetLog(run, from_line) == SubSeq(run.log, from_line + 1, Len(run.log))

\* Results.get: the page is rendered from the Run, its children and its
\* whole log.
ResultsGet(c, short_id) ==
    LET decoded == DecodeId(short_id)
        found == RunById(decoded.id)
        h0 == [Idle EXCEPT !.kind = "results", !.short_id = short_id,
                           !.earlier = polled]
    IN  /\ Accepts(c)
        /\ AskedFor(short_id, runs)
        /\ nreq' = nreq + 1
        /\ UNCHANGED <<uploads, runs, blobs, triggered, issued, created,
                       is_exiting>>
        /\ IF ~decoded.ok \/ found = {}
           THEN /\ Replies(c, h0, IF ~decoded.ok
                                  THEN MalformedOutcome("results")
                                  ELSE NotFoundOutcome("results"))
                /\ UNCHANGED <<experiments, clock, polled>>
           ELSE LET run == CHOOSE r \in found : TRUE
                    now == clock + 1
                IN  /\ clock' = now
                    /\ experiments' =
                           {IF e.hash = run.experiment_hash
                            THEN [e EXCEPT !.last_access = now] ELSE e
                            : e \in experiments}
                    /\ polled' = GetLog(run, 0)
                    /\ Replies(c, [h0 EXCEPT !.now = now],
                               [Response(200, "results.html") EXCEPT
                                    !.run = [run EXCEPT !.log = GetLog(run, 0)]])

\* A variant that looks at the stored text before the done flag.
ProgressTextFirst(run) ==
    IF run.progress_text # ""
    THEN [percent |-> run.progress_percent, text |-> run.progress_text]
    ELSE IF run.done THEN [percent |-> 100, text |-> "Completed"]
    ELSE IF ~run.started THEN [percent |-> 0, text |-> "Queued"]
    ELSE [percent |-> 40, text |-> "Starting"]

\* The progress ResultsJson.get reports for a Run.
Progress(run) ==
    IF run.done THEN [percent |-> 100, text |-> "Completed"]
    ELSE IF run.progress_text = ""
    THEN IF ~run.started THEN [percent |-> 0, text |-> "Queued"]
         ELSE [percent |-> 40, text |-> "Starting"]
    ELSE [percent |-> run.progress_percent, text |-> run.progress_text]

\* A variant that reads the log from its start whatever log_from is.
LogFromStart(log_from) == 0

\* log_from = int(self.get_query_argument('log_from', '0'), 10)
LogFrom(log_from) == log_from

\* ResultsJson.get: the JSON object has the Run's flags, progress and the
\* log from log_from on.  The query argument is read once the Run is found;
\* the offsets asked for are those within the log.
ResultsJsonGet(c, short_id, log_from) ==
    LET decoded == DecodeId(short_id)
        found == RunById(decoded.id)
        h0 == [Idle EXCEPT !.kind = "results_json", !.short_id = short_id,
                           !.log_from = log_from, !.earlier = polled]
    IN  /\ Accepts(c)
        /\ AskedFor(short_id, runs)
        /\ \A r \in found : log_from <= Len(r.log)
        /\ (~decoded.ok \/ found = {}) => log_from = 0
        /\ nreq' = nreq + 1
        /\ UNCHANGED <<experiments, uploads, runs, blobs, triggered, issued,
                       created, clock, is_exiting>>
        /\ IF ~decoded.ok \/ found = {}
           THEN /\ Replies(c, h0, IF ~decoded.ok
                                  THEN MalformedOutcome("results_json")
                                  ELSE NotFoundOutcome("results_json"))
                /\ polled' = polled
           ELSE LET run == CHOOSE r \in found : TRUE
                    log == GetLog(run, LogFrom(log_from))
                IN  /\ polled' = IF log_from = 0 THEN log ELSE polled
                    /\ Replies(c, h0,
                           [Response(200, "json") EXCEPT
                                !.run = [run EXCEPT
                                    !.progress_percent = Progress(run).percent,
                                    !.progress_text = Progress(run).text,
                                    !.log = log]])

--------------------------------------------------------------------------
\* The response on record has reached its client.
Delivered ==
    /\ sent # Idle
    /\ sent' = Idle
    /\ UNCHANGED <<experiments, uploads, runs, blobs, handlers, triggered,
                   issued, created, clock, nreq, serving>>

Next ==
    \/ \E c \in Handlers, hash \in Hashes : UploadPost(c, hash)
    \/ \E c \in Handlers : MakeExperimentDone(c)
    \/ \E c \in Handlers, stored \in BOOLEAN : UploadFileDone(c, stored)
    \/ \E c \in Handlers : ProcessUploadedDone(c)
    \/ \E c \in Handlers, short_id \in ShortIds : ReproduceLocalGet(c, short_id)
    \/ \E c \in Handlers, key \in RepositoryKeys : ReproduceRepoGet(c, key)
    \/ \E c \in Handlers, fetched \in Fetched : GetExperimentDone(c, fetched)
    \/ \E c \in Handlers, short_id \in ShortIds : StartRunPost(c, short_id)
    \/ \E c \in Handlers, stored \in BOOLEAN : UploadBytesDone(c, stored)
    \/ \E c \in Handlers, short_id \in ShortIds : ResultsGet(c, short_id)
    \/ \E c \in Handlers, short_id \in ShortIds, log_from \in 0..MaxLog :
           ResultsJsonGet(c, short_id, log_from)
    \/ Delivered

Spec == Init /\ [][Next]_vars

--------------------------------------------------------------------------
(* The runner, the shutdown and Health.get *)

\* The n-th line the runner writes to the log of a Run.
LogLine(n) == <<"line", n>>

\* The progress the runner stores: a percent, a text, or both.
ProgressWrites ==
    {[percent |-> 70, text |-> ""],
     [percent |-> 70, text |-> "Running"],
     [percent |-> 0, text |-> "Running"]}

\* The runner writes to the row of a Run it was handed and that is not
\* done; a poll never runs between the parts of one write.
RunnerWrites(id, written) ==
    /\ sent = Idle
    /\ id \in SeqToSet(triggered)
    /\ \E r \in runs :
           /\ r.id = id
           /\ ~r.done
           /\ written # r
           /\ runs' = (runs \ {r}) \cup {written}
    /\ UNCHANGED <<experiments, uploads, blobs, handlers, sent, triggered,
                   issued, created, clock, nreq, serving>>

\* The execution begins.
RunnerStarts(id) ==
    \E r \in RunById(id) : RunnerWrites(id, [r EXCEPT !.started = TRUE])

\* The runner appends a line to the log.
RunnerLogs(id) ==
    \E r \in RunById(id) :
        /\ Len(r.log) < MaxLog
        /\ RunnerWrites(id, [r EXCEPT !.log = Append(@, LogLine(Len(@) + 1))])

\* The runner stores a progress.
RunnerSetsProgress(id, progress) ==
    \E r \in RunById(id) :
        RunnerWrites(id, [r EXCEPT !.progress_percent = progress.percent,
                                   !.progress_text = progress.text])

\* The execution ends, in success or in failure, started or not.
RunnerFinishes(id) ==
    \E r \in RunById(id) : RunnerWrites(id, [r EXCEPT !.done = TRUE])

\* The application is asked to shut down.
Shutdown ==
    /\ sent = Idle
    /\ ~is_exiting
    /\ is_exiting' = TRUE
    /\ UNCHANGED <<experiments, uploads, runs, blobs, handlers, sent,
                   triggered, issued, created, clock, nreq, polled>>

\* What a health check returns: the empty string, or the error it found.
CheckResults == {"", "error"}

\* A variant that does not look at the flag.
ExitingIgnored(flag) == FALSE

\* if self.application.is_exiting
Exiting(flag) == flag

\* errors = [c for c in checks if c]
HealthErrors(checks) == SelectSeq(checks, LAMBDA c : c # "")

\* Health.get up to its await of the object store's check, or to its end
\* when the application is shutting down.
HealthGet(c) ==
    LET h == [Idle EXCEPT !.kind = "health", !.exiting = is_exiting]
    IN  /\ Accepts(c)
        /\ nreq' = nreq + 1
        /\ UNCHANGED <<experiments, uploads, runs, blobs, triggered, issued,
                       created, clock, serving>>
        /\ IF Exiting(is_exiting)
           THEN Replies(c, h, Response(503, "Shutting down"))
           ELSE Awaits(c, h, "object_store_check")

\* object_store.check() returns, database.check() is run, and Health.get
\* answers with the errors or with 'Ok'.
HealthChecked(c, store, database) ==
    LET h == [handlers[c] EXCEPT !.checks = <<store, database>>]
        errors == HealthErrors(h.checks)
    IN  /\ Resumes(c, "health", "object_store_check")
        /\ UNCHANGED <<experiments, uploads, runs, blobs, triggered, issued,
                       created, clock, nreq, serving>>
        /\ IF errors # <<>>
           THEN Replies(c, h, [Response(503, "errors") EXCEPT !.body = errors])
           ELSE Replies(c, h, Response(200, "Ok"))

\* The application once a package was uploaded and a Run of it created:
\* Upload.post of h2 and StartRun.post with its parameter a were served.
\* The requests counted are those served from here on.
InitServing ==
    /\ experiments = {[hash |-> "h2", last_access |-> 2]}
    /\ uploads = {[id |-> 1, experiment_hash |-> "h2", last_access |-> 2,
                   repository_key |-> None]}
    /\ runs = {[NoRun EXCEPT !.id = 1, !.experiment_hash = "h2",
                             !.upload_id = 1,
                             !.parameter_values =
                                 <<[name |-> "a", value |-> "1"]>>]}
    /\ blobs = {<<"experiments", "h2">>}
    /\ handlers = [c \in Handlers |-> Idle]
    /\ sent = Idle
    /\ triggered = <<1>>
    /\ issued = <<[hash |-> "h2", id |-> 1, short_id |-> EncodeId(1)]>>
    /\ created = <<[id |-> 1, short_id |-> EncodeId(1), upload_id |-> 1,
                    parameters |-> {"a"}, files |-> <<>>, ports |-> <<>>]>>
    /\ clock = 2
    /\ nreq = 0
    /\ is_exiting = FALSE
    /\ polled = <<>>

NextServing ==
    \/ \E id \in 1..MaxRuns : RunnerStarts(id)
    \/ \E id \in 1..MaxRuns : RunnerLogs(id)
    \/ \E id \in 1..MaxRuns, progress \in ProgressWrites :
           RunnerSetsProgress(id, progress)
    \/ \E id \in 1..MaxRuns : RunnerFinishes(id)
    \/ Shutdown
    \/ \E c \in Handlers : HealthGet(c)
    \/ \E c \in Handlers, store \in CheckResults, database \in CheckResults :
           HealthChecked(c, store, database)
    \/ \E c \in Handlers, short_id \in ShortIds : ResultsGet(c, short_id)
    \/ \E c \in Handlers, short_id \in ShortIds, log_from \in 0..MaxLog :
           ResultsJsonGet(c, short_id, log_from)
    \/ Delivered

SpecServing == InitServing /\ [][NextServing]_vars

--------------------------------------------------------------------------
(* What the requests answered and the rows committed are checked against *)

StartRunAnswered == sent.kind = "start_run" /\ sent.resp.status # 404

DeclaredNames(hash) == {p.name : p \in Parameters(hash)}

MandatoryNames(hash) == {p.name : p \in Parameters(hash)} \
                            {p.name : p \in {q \in Parameters(hash) : q.optional}}

DeclaredInputs(hash) == {p.name : p \in {q \in Paths(hash) : q.is_input}}

ParametersPass(h) ==
    /\ h.asked \subseteq DeclaredNames(h.run.experiment_hash)
    /\ MandatoryNames(h.run.experiment_hash) \subseteq h.asked

NamesNoInput(k, hash) ==
    k.prefix # "inputfile_" \/ k.name \notin DeclaredInputs(hash)

\* The port a token of PortTokens writes in decimal, 0 when it writes none
\* in 1..65535.
PortWritten(token) ==
    CASE token = P80 -> 80
      [] token = P65535 -> 65535
      [] OTHER -> 0

ValidationErrors ==
    {"Unknown parameter", "Missing value for parameters", "Unknown input file",
     "Invalid port number"}

\* The Run row has every child row its request asked for.
Complete(r) ==
    \E i \in 1..Len(created) :
        LET q == created[i]
        IN  /\ q.id = r.id
            /\ {pv.name : pv \in SeqToSet(r.parameter_values)} = q.parameters
            /\ Len(r.parameter_values) = Cardinality(q.parameters)
            /\ Len(r.input_files) = Len(q.files)
            /\ \A j \in 1..Len(q.files) : r.input_files[j].name = q.files[j].name
            /\ Len(r.ports) = Len(q.ports)
            /\ \A j \in 1..Len(q.ports) : r.ports[j] = PortWritten(q.ports[j])

--------------------------------------------------------------------------
\* C1: after any number of returned store_uploaded_rpz calls there is at
\* most one Experiment per hash, every call has added exactly one Upload
\* row, the Upload a call returned references the Experiment of the call's
\* hash, and the Short-IDs returned are pairwise distinct.
C1_OneExperimentManyUploads ==
    /\ \A e1, e2 \in experiments : e1.hash = e2.hash => e1 = e2
    /\ Cardinality({u \in uploads : u.repository_key = None}) = Len(issued)
    /\ \A i \in 1..Len(issued) :
           /\ Cardinality(ExperimentByHash(issued[i].hash)) = 1
           /\ Cardinality({u \in uploads :
                               EncodeId(u.id) = issued[i].short_id}) = 1
           /\ \A u \in uploads :
                  EncodeId(u.id) = issued[i].short_id
                      => u.experiment_hash = issued[i].hash
    /\ \A i, j \in 1..Len(issued) :
           i # j => issued[i].short_id # issued[j].short_id

\* Identical bytes were uploaded twice.
C1_Witness ==
    /\ Len(issued) >= 2
    /\ issued[1].hash = issued[2].hash

\* C2: a store_uploaded_rpz call that looked its hash up before another
\* call committed the Experiment does not end in an error: it returns the
\* Short-ID of an Upload that references the Experiment.
C2_LosingWriterFallsBack ==
    (/\ sent.kind = "upload"
     /\ ~sent.found
     /\ ValidPackage(sent.hash)
     /\ ExperimentByHash(sent.hash) # {}
     /\ \E i \in 1..Len(issued) : issued[i].hash = sent.hash
     /\ sent.resp.what # "object store error")
        => /\ sent.resp.status = 303
           /\ \E u \in uploads : /\ EncodeId(u.id) = sent.resp.short_id
                                  /\ u.experiment_hash = sent.hash

\* C3: when the extractor rejects a package, the call answers with the
\* bad-file page and no Short-ID, and no Experiment, Upload or blob of the
\* 'experiments' store exists for the package's hash.
C3_InvalidPackagePersistsNothing ==
    (sent.kind = "upload" /\ ~ValidPackage(sent.hash))
        => /\ sent.resp.what = "setup_badfile.html"
           /\ sent.resp.short_id = <<>>
           /\ ExperimentByHash(sent.hash) = {}
           /\ \A u \in uploads : u.experiment_hash # sent.hash
           /\ <<"experiments", sent.hash>> \notin blobs

C3_Witness ==
    /\ sent.kind = "upload"
    /\ ~ValidPackage(sent.hash)
    /\ sent.resp.what = "setup_badfile.html"
    /\ experiments # {}

\* C4: when StartRun.post fails a validation, the database holds no Run
\* row but those of the requests that committed, each with the children of
\* its request, and the last-access times of the Upload and the Experiment
\* are not those of this request.
C4_FailedValidationCommitsNothing ==
    (sent.kind = "start_run" /\ sent.resp.what \in ValidationErrors)
        => /\ Cardinality(runs) = Len(created)
           /\ \A r \in runs : Complete(r)
           /\ \A u \in uploads : u.id = sent.upload_id
                                      => u.last_access # sent.now
           /\ \A e \in experiments : e.hash = sent.run.experiment_hash
                                          => e.last_access # sent.now

\* A request failed at the ports with a parameter and an input file staged.
C4_Witness ==
    /\ sent.kind = "start_run"
    /\ sent.resp.what = "Invalid port number"
    /\ sent.run.parameter_values # <<>>
    /\ sent.run.input_files # <<>>

\* C5: when the submitted parameters are all declared, the request fails
\* with the missing-parameter error exactly when a mandatory one is left
\* out, and the error lists all the mandatory names left out; otherwise it
\* fails with neither parameter error.
C5_MissingParametersAllListed ==
    (/\ StartRunAnswered
     /\ sent.asked \subseteq DeclaredNames(sent.run.experiment_hash))
        => LET missing == MandatoryNames(sent.run.experiment_hash) \ sent.asked
           IN  IF missing # {}
               THEN /\ sent.resp.what = "Missing value for parameters"
                    /\ sent.resp.names = missing
               ELSE sent.resp.what \notin
                        {"Unknown parameter", "Missing value for parameters"}

\* Two mandatory parameters were left out.
C5_Witness ==
    /\ StartRunAnswered
    /\ sent.resp.what = "Missing value for parameters"
    /\ Cardinality(sent.resp.names) = 2

\* C6: when a submitted parameter key is not declared, the request fails
\* with the unknown-parameter error, which names a submitted key that is
\* not declared, the first of them; mandatory parameters left out do not
\* change that; no other request fails with that error.
C6_UnknownParameterNamed ==
    StartRunAnswered =>
        LET declared == DeclaredNames(sent.run.experiment_hash)
            unknown(k) == k.prefix = "param_" /\ k.name \notin declared
        IN  IF sent.asked \subseteq declared
            THEN sent.resp.what # "Unknown parameter"
            ELSE /\ sent.resp.what = "Unknown parameter"
                 /\ \E i \in 1..Len(sent.args) :
                        /\ sent.args[i] = sent.resp.key
                        /\ unknown(sent.args[i])
                        /\ \A j \in 1..(i - 1) : ~unknown(sent.args[j])

\* An unknown parameter was submitted and both mandatory ones left out.
C6_Witness ==
    /\ StartRunAnswered
    /\ sent.resp.what = "Unknown parameter"
    /\ Cardinality(MandatoryNames(sent.run.experiment_hash) \ sent.asked) = 2

\* C7: when the parameters pass and no blob upload fails, a submitted file
\* whose key names no input Path of the Experiment makes the request fail
\* with the unknown-input-file error naming the first such key; and the
\* InputFile names of every committed Run are input Paths of its Experiment.
C7_UnknownInputFileNamed ==
    /\ (/\ StartRunAnswered
         /\ ParametersPass(sent)
         /\ sent.resp.what # "object store error")
            => LET hash == sent.run.experiment_hash
                   bad == {i \in 1..Len(sent.files) : NamesNoInput(sent.files[i], hash)}
               IN  IF bad = {}
                   THEN sent.resp.what # "Unknown input file"
                   ELSE /\ sent.resp.what = "Unknown input file"
                        /\ \E i \in bad : /\ sent.resp.key = sent.files[i]
                                           /\ \A j \in bad : i <= j
    /\ \A r \in runs : \A i \in 1..Len(r.input_files) :
           r.input_files[i].name \in DeclaredInputs(r.experiment_hash)

\* A file with an unknown key came after one that was uploaded and staged.
C7_Witness ==
    /\ StartRunAnswered
    /\ sent.resp.what = "Unknown input file"
    /\ sent.run.input_files # <<>>

\* C8: when the request reaches the ports, the first token that writes no
\* integer in 1..65535 fails it with the invalid-port error citing that
\* token; when there is none the committed Run has one RunPort per token,
\* in order, with the token's value; every RunPort of every committed Run
\* is in 1..65535.
C8_PortsValidatedInOrder ==
    /\ (/\ StartRunAnswered
         /\ sent.resp.what \in {"Invalid port number", "results"})
            => \A tokens \in PortTokenLists :
                   JoinTokens(tokens) = sent.ports =>
                       LET bad == {i \in 1..Len(tokens) : PortWritten(tokens[i]) = 0}
                       IN  IF bad = {}
                           THEN /\ sent.resp.what = "results"
                                /\ \E r \in runs :
                                       /\ EncodeId(r.id) = sent.resp.short_id
                                       /\ r.ports = [i \in 1..Len(tokens) |->
                                                         PortWritten(tokens[i])]
                           ELSE /\ sent.resp.what = "Invalid port number"
                                /\ \E i \in bad : /\ sent.resp.token = tokens[i]
                                                   /\ \A j \in bad : i <= j
    /\ \A r \in runs : \A i \in 1..Len(r.ports) :
           r.ports[i] >= 1 /\ r.ports[i] <= 65535

\* An invalid token was cited after a valid one was accepted.
C8_Witness ==
    /\ StartRunAnswered
    /\ sent.resp.what = "Invalid port number"
    /\ sent.ports = JoinTokens(<<P80, P65536>>)
    /\ sent.resp.token = P65536

\* C9: whatever a reader loads at any moment, also while StartRun.post is
\* suspended on an input blob upload, is no Run or a Run with all the child
\* rows of its request; and so is what Results.get and ResultsJson.get did
\* load.
C9_RunNeverPartial ==
    /\ \A r \in runs : Complete(r)
    /\ (sent.kind \in {"results", "results_json"} /\ sent.resp.status = 200)
           => Complete(sent.resp.run)

\* A reader asked for the Run of a StartRun.post that is suspended on an
\* input blob upload, and found none.
C9_Witness ==
    /\ sent.kind \in {"results", "results_json"}
    /\ sent.resp.status = 404
    /\ sent.short_id = EncodeId(NextId(runs))
    /\ \E c \in Handlers : /\ handlers[c].pc = "upload_bytes"
                            /\ handlers[c].run.parameter_values # <<>>

\* C10: the runner has been handed exactly the ids of the committed Runs,
\* each once, in the order of the commits: none before its commit, and
\* none by a request that failed.
C10_TriggeredOncePerCommit ==
    /\ Len(triggered) = Len(created)
    /\ \A i \in 1..Len(triggered) :
           /\ triggered[i] = created[i].id
           /\ \E r \in runs : r.id = triggered[i]
    /\ \A i, j \in 1..Len(triggered) : i # j => triggered[i] # triggered[j]
    /\ (sent.kind = "start_run" /\ sent.resp.status # 303)
           => \A i \in 1..Len(triggered) : triggered[i] # sent.run.id

\* A StartRun.post committed its Run and handed it to the runner.
C10_Witness ==
    /\ sent.kind = "start_run"
    /\ sent.resp.status = 303
    /\ triggered = <<sent.run.id>>
    /\ sent.run.id # sent.upload_id

\* The runner has not touched the Run row.
Untouched(r) ==
    /\ ~r.started
    /\ ~r.done
    /\ r.progress_percent = 0
    /\ r.progress_text = ""
    /\ r.log = <<>>

\* C11: the redirect of StartRun.post is produced in the step that commits
\* the Run and hands it to the runner, while the runner has taken no step
\* for that Run: the Run is committed, handed over, not started, not done,
\* without progress and without log when the response is on its way.
C11_ResponseWithoutRunner ==
    (sent.kind = "start_run" /\ sent.resp.status = 303)
        => /\ sent.resp.what = "results"
           /\ triggered # <<>>
           /\ Last(triggered) = sent.run.id
           /\ \E r \in runs : r.id = sent.run.id /\ Untouched(r)
           /\ \A c \in Handlers : handlers[c].run.id # sent.run.id

\* The redirect is on its way and the runner has only been handed the Run.
C11_Witness ==
    /\ sent.kind = "start_run"
    /\ sent.resp.status = 303
    /\ Len(triggered) = 1
    /\ \E r \in runs : r.id = Last(triggered) /\ Untouched(r)

\* ResultsJson.get found the Run and answered with its status.
Polled == sent.kind = "results_json" /\ sent.resp.status = 200

\* The progress the answer reports.
Reported == <<sent.resp.run.progress_percent, sent.resp.run.progress_text>>

IsPrefix(s, t) == Len(s) <= Len(t) /\ SubSeq(t, 1, Len(s)) = s

\* C12: ResultsJson.get reports (100, "Completed") for a Run that is done,
\* whatever else is stored; (0, "Queued") for one not done, without text
\* and not started; (40, "Starting") for one not done, without text and
\* started; and the flags as stored.
C12_DerivedStatus ==
    Polled =>
        \A r \in runs : r.id = sent.resp.run.id =>
            /\ r.done => Reported = <<100, "Completed">>
            /\ (~r.done /\ r.progress_text = "" /\ ~r.started)
                   => Reported = <<0, "Queued">>
            /\ (~r.done /\ r.progress_text = "" /\ r.started)
                   => Reported = <<40, "Starting">>
            /\ sent.resp.run.started = r.started
            /\ sent.resp.run.done = r.done

\* A Run done without having started, with a progress stored, was polled.
C12_Witness ==
    /\ Polled
    /\ Reported = <<100, "Completed">>
    /\ \E r \in runs : /\ r.id = sent.resp.run.id
                        /\ ~r.started
                        /\ r.progress_percent = 70
                        /\ r.progress_text = "Running"

\* C13: for a Run that is not done, ResultsJson.get reports the stored
\* percent and the stored text unchanged whenever the runner stored a
\* percent or a text, also a percent with an empty text.
C13_StoredProgressReported ==
    Polled =>
        \A r \in runs :
            (/\ r.id = sent.resp.run.id
             /\ ~r.done
             /\ (r.progress_percent # 0 \/ r.progress_text # ""))
                => Reported = <<r.progress_percent, r.progress_text>>

\* Results.get or ResultsJson.get found the Run and answered with its log.
LogRead == sent.kind \in {"results", "results_json"} /\ sent.resp.status = 200

\* C14: a poll with log_from=0 of a Run without log returns nothing; a
\* poll with log_from=0 returns the whole log, of which what the earlier
\* poll with log_from=0 returned is the beginning; a poll from the length
\* of that earlier read returns what completes it to the whole log; and a
\* poll of a log that has not changed since returns, from any offset, the
\* part of the earlier read from that offset on.
C14_LogOffsetConsistent ==
    LogRead =>
        \A r \in runs : r.id = sent.resp.run.id =>
            LET log == sent.resp.run.log
                from == sent.log_from
                earlier == sent.earlier
            IN  /\ (from = 0 /\ r.log = <<>>) => log = <<>>
                /\ from = 0 => (log = r.log /\ IsPrefix(earlier, log))
                /\ from = Len(earlier) => earlier \o log = r.log
                /\ (r.log = earlier /\ from <= Len(earlier))
                       => log = SubSeq(earlier, from + 1, Len(earlier))

\* A poll from the length of an earlier read returned the line appended
\* since.
C14_Witness ==
    /\ Polled
    /\ sent.log_from = 1
    /\ sent.earlier = <<LogLine(1)>>
    /\ sent.resp.run.log = <<LogLine(2)>>

\* C18: a Health.get that finds the application shutting down answers 503
\* 'Shutting down' without running a check; one that does not runs both
\* checks and answers 503 with the errors when a check returned one, and
\* 'Ok' otherwise.
C18_HealthFollowsFlag ==
    sent.kind = "health" =>
        IF sent.exiting
        THEN /\ sent.resp.status = 503
             /\ sent.resp.what = "Shutting down"
             /\ sent.checks = <<>>
        ELSE /\ Len(sent.checks) = 2
             /\ IF \E i \in 1..2 : sent.checks[i] # ""
                THEN /\ sent.resp.status = 503
                     /\ sent.resp.what = "errors"
                     /\ sent.resp.body # <<>>
                     /\ \A i \in 1..2 :
                            sent.checks[i] # ""
                                => \E j \in 1..Len(sent.resp.body) :
                                       sent.resp.body[j] = sent.checks[i]
                ELSE /\ sent.resp.status = 200
                     /\ sent.resp.what = "Ok"

\* Health.get found the application shutting down.
C18_Witness ==
    /\ sent.kind = "health"
    /\ sent.exiting
    /\ sent.resp.what = "Shutting down"

\* C15: a handler that takes a Short-ID answers a malformed one with
\* something else than what it answers a well-formed one of no row.
C15_MalformedDistinctFromNotFound ==
    (/\ sent.kind \in {"reproduce_local", "start_run", "results", "results_json"}
     /\ ~DecodeId(sent.short_id).ok)
        => sent.resp # NotFoundOutcome(sent.kind)

\* C16: the Short-ID store_uploaded_rpz returned decodes to the id of the
\* Upload it registered, and ReproduceLocal.get and StartRun.post asked
\* with it find that Upload; the Short-ID StartRun.post redirected to
\* decodes to the id of the Run it committed, and Results.get and
\* ResultsJson.get asked with it find that Run.
C16_ShortIdRoundTrip ==
    /\ \A i \in 1..Len(issued) :
           DecodeId(issued[i].short_id) = [ok |-> TRUE, id |-> issued[i].id]
    /\ \A i \in 1..Len(created) :
           DecodeId(created[i].short_id) = [ok |-> TRUE, id |-> created[i].id]
    /\ sent.kind \in {"reproduce_local", "start_run"}
           => \A i \in 1..Len(issued) :
                  issued[i].short_id = sent.short_id
                      => /\ sent.resp.status # 404
                         /\ sent.upload_id = issued[i].id
                         /\ \E u \in uploads :
                                /\ u.id = sent.upload_id
                                /\ u.experiment_hash = issued[i].hash
    /\ sent.kind \in {"results", "results_json"}
           => \A i \in 1..Len(created) :
                  created[i].short_id = sent.short_id
                      => /\ sent.resp.status = 200
                         /\ sent.resp.run.id = created[i].id
                         /\ sent.resp.run.upload_id = created[i].upload_id

\* StartRun.post was asked with the Short-ID of the second Upload, found
\* it and redirected to the Short-ID of the first Run.
C16_Witness ==
    /\ sent.kind = "start_run"
    /\ sent.resp.status = 303
    /\ Len(issued) = 2
    /\ sent.short_id = issued[2].short_id
    /\ sent.upload_id = 2
    /\ sent.resp.short_id = EncodeId(1)

\* A ReproduceRepo.get request for the key begins in this step.
RepoStarted(key) ==
    /\ nreq' = nreq + 1
    /\ \/ sent'.kind = "reproduce_repo" /\ sent'.repository_key = key
       \/ \E c \in Handlers : /\ handlers[c].kind = "idle"
                               /\ handlers'[c].kind = "reproduce_repo"
                               /\ handlers'[c].repository_key = key

\* C17: a ReproduceRepo.get that begins when an Upload with its key is
\* committed ends in the same step, so without awaiting the fetch, with the
\* setup page of the matching Upload with the greatest id; no row and no
\* blob is added, and only the last-access times of that Upload and of its
\* Experiment change.
C17_RepoHitOnlyTouches ==
    [][\A key \in RepositoryKeys :
           LET matching == {u \in uploads : u.repository_key = key}
               top == CHOOSE u \in matching : \A v \in matching : v.id <= u.id
           IN  (RepoStarted(key) /\ matching # {})
                   => /\ sent'.kind = "reproduce_repo"
                      /\ sent'.resp.status = 200
                      /\ sent'.resp.short_id = EncodeId(top.id)
                      /\ handlers' = handlers
                      /\ blobs' = blobs
                      /\ runs' = runs
                      /\ Cardinality(uploads') = Cardinality(uploads)
                      /\ Cardinality(experiments') = Cardinality(experiments)
                      /\ \A u \in uploads :
                             IF u.id = top.id
                             THEN [u EXCEPT !.last_access = clock'] \in uploads'
                             ELSE u \in uploads'
                      /\ \A e \in experiments :
                             IF e.hash = top.experiment_hash
                             THEN [e EXCEPT !.last_access = clock'] \in experiments'
                             ELSE e \in experiments'
                      /\ clock' # top.last_access
      ]_vars

\* ReproduceRepo.get found two Uploads with its key and took the second.
C17_Witness ==
    /\ sent.kind = "reproduce_repo"
    /\ sent.found
    /\ Cardinality({u \in uploads :
                       u.repository_key = sent.repository_key}) = 2
    /\ sent.upload_id = 2
    /\ sent.resp.short_id = EncodeId(2)

\* An Upload.post of a package with the hash begins in this step.
UploadStarted(hash) ==
    /\ nreq' = nreq + 1
    /\ \/ sent'.kind = "upload" /\ sent'.hash = hash
       \/ \E c \in Handlers : /\ handlers[c].kind = "idle"
                               /\ handlers'[c].kind = "upload"
                               /\ handlers'[c].hash = hash

\* C19: a store_uploaded_rpz call that begins when an Experiment with its
\* hash is committed ends in the same step, so without awaiting the
\* extractor or the blob upload; no blob is stored, one Upload row of the
\* Experiment is added, and of the other rows only the last-access time of
\* that Experiment changes.
C19_KnownHashOnlyAddsUpload ==
    [][\A hash \in Hashes :
           (UploadStarted(hash) /\ ExperimentByHash(hash) # {})
               => /\ sent'.kind = "upload"
                  /\ sent'.resp.status = 303
                  /\ handlers' = handlers
                  /\ blobs' = blobs
                  /\ runs' = runs
                  /\ uploads \subseteq uploads'
                  /\ Cardinality(uploads' \ uploads) = 1
                  /\ \A u \in uploads' \ uploads : u.experiment_hash = hash
                  /\ Cardinality(experiments') = Cardinality(experiments)
                  /\ \A e \in experiments :
                         IF e.hash = hash
                         THEN [e EXCEPT !.last_access = clock'] \in experiments'
                         ELSE e \in experiments'
                  /\ \A e \in experiments : e.hash = hash
                                                 => clock' # e.last_access
      ]_vars

\* A package whose Experiment exists was uploaded again.
C19_Witness ==
    /\ sent.kind = "upload"
    /\ sent.found
    /\ sent.resp.status = 303
    /\ Cardinality({u \in uploads : u.experiment_hash = sent.hash}) = 2

\* C20: a StartRun.post that fails a validation has stored no blob: none
\* of the input files it staged is in the 'inputs' store.
C20_NoBlobBeforeValidation ==
    (sent.kind = "start_run" /\ sent.resp.what \in ValidationErrors)
        => \A i \in 1..Len(sent.run.input_files) :
               <<"inputs", sent.run.input_files[i].hash>> \notin blobs

\* C21: every committed Experiment has its package in the 'experiments'
\* store under its hash, and every InputFile of a committed Run has its
\* blob in the 'inputs' store under its hash, whatever upload or later
\* step has failed.
C21_RowsHaveBlobs ==
    /\ \A e \in experiments : <<"experiments", e.hash>> \in blobs
    /\ \A r \in runs :
           \A i \in 1..Len(r.input_files) :
               <<"inputs", r.input_files[i].hash>> \in blobs

\* The upload of a new package failed at the object store and left no
\* Experiment, while a Run with an input file is committed.
C21_Witness ==
    /\ sent.kind = "upload"
    /\ sent.resp = Response(500, "object store error")
    /\ ExperimentByHash(sent.hash) = {}
    /\ <<"experiments", sent.hash>> \notin blobs
    /\ experiments # {}
    /\ \E r \in runs : Len(r.input_files) > 0

\* C22: every committed Run has the id of a committed Upload and the hash
\* of a committed Experiment, and that hash is the one of the Experiment
\* of its Upload.
C22_RunReferencesExist ==
    \A r \in runs :
        /\ \E u \in uploads : /\ u.id = r.upload_id
                              /\ u.experiment_hash = r.experiment_hash
        /\ \E e \in experiments : e.hash = r.experiment_hash

\* StartRun.post committed a Run for the second of two Uploads, each of
\* an Experiment of its own.
C22_Witness ==
    /\ sent.kind = "start_run"
    /\ sent.resp.status = 303
    /\ Cardinality(experiments) = 2
    /\ \E r \in runs :
           /\ r.id = sent.run.id
           /\ r.upload_id = 2
           /\ \E u \in uploads : /\ u.id = 1
                                 /\ u.experiment_hash # r.experiment_hash

====
